---- MODULE Spec2Model ----
(***************************************************************************)
(* Recapify: the media processing pipeline of src/main.py (Gradio front    *)
(* end) and src/streamlit_app.py (Streamlit front end).                    *)
(*                                                                         *)
(* Strings are sequences of tokens.  A token is one character of user data *)
(* (a path character, a transcript character, a response fragment) or one  *)
(* fixed literal of an f-string template of the source.                    *)
(***************************************************************************)
EXTENDS Integers, Sequences, FiniteSets, TLC

VARIABLES call, inv, disk

vars == <<call, inv, disk>>

(***************************************************************************)
(* Bounds of the model.                                                    *)
(***************************************************************************)
MaxFrames == 3
MaxChunk == 2

(***************************************************************************)
(* String helpers (Python str operations used by the source).              *)
(***************************************************************************)
PreviewLen == 500

Min(a, b) == IF a < b THEN a ELSE b

\* text[:n]
Slice(s, n) == SubSeq(s, 1, Min(n, Len(s)))

\* sub in s
Contains(s, sub) ==
    \E i \in 0..(Len(s) - Len(sub)) : SubSeq(s, i + 1, i + Len(sub)) = sub

EndsWith(s, suf) ==
    /\ Len(suf) <= Len(s)
    /\ SubSeq(s, Len(s) - Len(suf) + 1, Len(s)) = suf

Repeat(tok, n) == [i \in 1..n |-> tok]

\* index of the last occurrence of tok in s, 0 when there is none (str.rfind + 1)
LastIndex(s, tok) ==
    LET hits == {i \in 1..Len(s) : s[i] = tok}
    IN  IF hits = {} THEN 0 ELSE CHOOSE i \in hits : \A j \in hits : j <= i

\* os.path.basename
basename(p) == SubSeq(p, LastIndex(p, "/") + 1, Len(p))

\* os.path.splitext(p)[0]: the extension starts at the last dot of the last
\* component, unless only dots precede it in that component
splitext_root(p) ==
    LET sep == LastIndex(p, "/")
        dot == LastIndex(p, ".")
    IN  IF dot > sep /\ \E j \in (sep + 1)..(dot - 1) : p[j] # "."
        THEN SubSeq(p, 1, dot - 1)
        ELSE p

(***************************************************************************)
(* Program constants.                                                      *)
(***************************************************************************)
Sentinel == <<"ollama-not-available">>
Ellipsis == <<".", ".", ".">>
output_file == <<"output.txt">>
transcript_file == <<"transcript.txt">>

Apps == {"gradio", "streamlit"}

(***************************************************************************)
(* The streamed body of POST /api/generate.                                *)
(* A line of the body is one of:                                           *)
(*   object    a JSON object; hasResponse/response and done are its keys   *)
(*   blank     an empty line (skipped by `if line:`)                       *)
(*   badjson   text that json.loads rejects                                *)
(*   badutf8   bytes that line.decode("utf-8") rejects                     *)
(*   nonobject valid JSON that is not an object (a list, a number)         *)
(* raw is the text of the line as response.text renders it.                *)
(***************************************************************************)
Obj(raw, hasResponse, response, done) ==
    [kind |-> "object", raw |-> raw, hasResponse |-> hasResponse,
     response |-> response, done |-> done]

Other(kind, raw) ==
    [kind |-> kind, raw |-> raw, hasResponse |-> FALSE,
     response |-> <<>>, done |-> FALSE]

FrameA == Obj("{response:A,done:false}", TRUE, <<"A">>, FALSE)
FrameB == Obj("{response:B,done:true}", TRUE, <<"B">>, TRUE)
FrameC == Obj("{response:C,done:false}", TRUE, <<"C">>, FALSE)
FrameEmptyDone == Obj("{response:,done:true}", TRUE, <<>>, TRUE)
FrameNoResponseDone == Obj("{done:true}", FALSE, <<>>, TRUE)
LineBlank == Other("blank", "")
LineBadJson == Other("badjson", "{oops")
LineBadUtf8 == Other("badutf8", "\\ufffd")
LineNonObject == Other("nonobject", "[1]")

WellFormed == {FrameA, FrameB, FrameC, FrameEmptyDone, FrameNoResponseDone}
Lines == WellFormed \cup {LineBlank, LineBadJson, LineBadUtf8, LineNonObject}

SeqsUpTo(S, n) == UNION {[1..k -> S] : k \in 0..n}

\* How the body ends: with a newline after the last line, with the last line
\* unterminated, or with the connection dropped after the last line.
Endings == {"newline", "unterminated", "reset"}

\* What the server does with one POST.
\*   outcome  "connect"   the connection cannot be established
\*            "timeout"   no response within the timeout
\*            "status"    an answer with a status other than 200, body `body`
\*            "ok"        status 200 with the streamed lines `lines`
\*   chunk    how many lines one read of the transport delivers
Reply(outcome, body, lines, chunk, ending) ==
    [outcome |-> outcome, body |-> body, lines |-> lines,
     chunk |-> chunk, ending |-> ending]

NoReply == Reply("none", <<>>, <<>>, 1, "newline")

Replies(n, c) ==
    {Reply("connect", <<>>, <<>>, 1, "newline"),
     Reply("timeout", <<>>, <<>>, 1, "newline"),
     Reply("status", <<"Internal Server Error">>, <<>>, 1, "newline"),
     Reply("status", <<FrameA.raw, FrameB.raw>>, <<FrameA, FrameB>>, 1, "newline")}
    \cup {Reply("ok", <<>>, ls, ch, e) :
             ls \in SeqsUpTo(Lines, n), ch \in 1..c, e \in Endings}

(***************************************************************************)
(* summarize_with_model (identical in both front ends up to the wording of *)
(* the unavailable message).  The outcome of a call is a record:           *)
(*   kind   "return" or "raise"                                            *)
(*   value  the returned string, or the name of the exception raised       *)
(*   posts  the number of HTTP requests issued                             *)
(*   sent   the JSON body of the request issued, <<>> when none            *)
(***************************************************************************)
Outcome(kind, value, posts, sent) ==
    [kind |-> kind, value |-> value, posts |-> posts, sent |-> sent]

Pending == Outcome("pending", <<>>, 0, <<>>)

UnavailableHeader(app) ==
    IF app = "gradio" THEN <<"Ollama Service Unavailable ... Context provided: ">>
    ELSE <<"**Ollama Service Unavailable** ... Context provided: ">>

PreviewLabel == <<"Transcript preview (first 500 characters): ">>
ParseFailedPrefix == <<"Failed to parse the response from the server. Raw response: ">>
StillAvailable == <<"Transcript is still available for download below.">>

\* the ellipsis test written with >= instead of >
UnavailableMessage_AtLeast(app, context, text) ==
    UnavailableHeader(app)
    \o (IF context # <<>> THEN context ELSE <<"None">>)
    \o PreviewLabel
    \o Slice(text, PreviewLen)
    \o (IF Len(text) >= PreviewLen THEN Ellipsis ELSE <<>>)

\* the f-string returned when llm_model_name is the sentinel
UnavailableMessage(app, context, text) ==
    UnavailableHeader(app)
    \o (IF context # <<>> THEN context ELSE <<"None">>)
    \o PreviewLabel
    \o Slice(text, PreviewLen)
    \o (IF Len(text) > PreviewLen THEN Ellipsis ELSE <<>>)

\* the prompt template: context first, transcript second, instruction last
Prompt(context, text) ==
    <<"You are given a transcript from a meeting ... Context: ">>
    \o (IF context # <<>> THEN context ELSE <<"No additional context provided.">>)
    \o <<"The transcript is as follows: ">>
    \o text
    \o <<"Please summarize the transcript.">>

StatusMessage(llm_model_name, body) ==
    <<"Error: Failed to summarize with model ">> \o llm_model_name
    \o <<". Server returned: ">> \o body \o StillAvailable

ConnectMessage(e) ==
    <<"Error: Cannot connect to Ollama server: ">> \o <<e>> \o StillAvailable

RECURSIVE RawText(_, _, _)
RawText(lines, from, to) ==
    IF from > to THEN <<>>
    ELSE <<lines[from].raw>> \o RawText(lines, from + 1, to)

\* Lines the transport has delivered once line k is being processed: whole
\* chunks of reply.chunk lines.
Pulled(reply, k) ==
    Min(Len(reply.lines), reply.chunk * ((k + reply.chunk - 1) \div reply.chunk))

\* the handler returning the whole body instead of what is left of it
OnJSONDecodeError_WholeBody(reply, k) ==
    IF reply.ending = "reset"
    THEN [kind |-> "return", value |-> ConnectMessage("ChunkedEncodingError")]
    ELSE IF k = Len(reply.lines) /\ reply.ending = "unterminated"
    THEN [kind |-> "raise", value |-> <<"RuntimeError">>]
    ELSE [kind |-> "return",
          value |-> ParseFailedPrefix \o RawText(reply.lines, 1, Len(reply.lines))]

\* `except json.JSONDecodeError` while line k is processed: response.text
\* reads what is left of the body.  The final unterminated line is handed
\* out only after the body was exhausted, and then response.text raises; a
\* dropped connection surfaces as a RequestException in the outer handler.
OnJSONDecodeError(reply, k) ==
    IF reply.ending = "reset"
    THEN [kind |-> "return", value |-> ConnectMessage("ChunkedEncodingError")]
    ELSE IF k = Len(reply.lines) /\ reply.ending = "unterminated"
    THEN [kind |-> "raise", value |-> <<"RuntimeError">>]
    ELSE [kind |-> "return",
          value |-> ParseFailedPrefix
                    \o RawText(reply.lines, Pulled(reply, k) + 1, Len(reply.lines))]

\* the loop without the `break` on done
RECURSIVE IterLines_NoBreak(_, _, _)
IterLines_NoBreak(reply, k, full_response) ==
    IF k > Len(reply.lines)
    THEN IF reply.ending = "reset"
         THEN [kind |-> "return", value |-> ConnectMessage("ChunkedEncodingError")]
         ELSE [kind |-> "return", value |-> full_response]
    ELSE LET line == reply.lines[k]
         IN  CASE line.kind = "blank" -> IterLines_NoBreak(reply, k + 1, full_response)
               [] line.kind = "badutf8" ->
                      [kind |-> "raise", value |-> <<"UnicodeDecodeError">>]
               [] line.kind = "badjson" -> OnJSONDecodeError(reply, k)
               [] line.kind = "nonobject" ->
                      [kind |-> "raise", value |-> <<"AttributeError">>]
               [] OTHER ->
                      IterLines_NoBreak(reply, k + 1,
                          full_response
                          \o (IF line.hasResponse THEN line.response ELSE <<>>))

\* the loop `for line in response.iter_lines()` from line k on, with
\* full_response accumulated so far
RECURSIVE IterLines(_, _, _)
IterLines(reply, k, full_response) ==
    IF k > Len(reply.lines)
    THEN IF reply.ending = "reset"
         THEN [kind |-> "return", value |-> ConnectMessage("ChunkedEncodingError")]
         ELSE [kind |-> "return", value |-> full_response]
    ELSE LET line == reply.lines[k]
         IN  CASE line.kind = "blank" -> IterLines(reply, k + 1, full_response)
               [] line.kind = "badutf8" ->
                      [kind |-> "raise", value |-> <<"UnicodeDecodeError">>]
               [] line.kind = "badjson" -> OnJSONDecodeError(reply, k)
               [] line.kind = "nonobject" ->
                      [kind |-> "raise", value |-> <<"AttributeError">>]
               [] OTHER ->
                      LET next == full_response
                                  \o (IF line.hasResponse THEN line.response ELSE <<>>)
                      IN  IF line.done
                          THEN [kind |-> "return", value |-> next]
                          ELSE IterLines(reply, k + 1, next)

\* the call without the test `response.status_code == 200`
summarize_with_model_AnyStatus(app, llm_model_name, context, text, reply) ==
    IF llm_model_name = Sentinel
    THEN Outcome("return", UnavailableMessage(app, context, text), 0, <<>>)
    ELSE LET sent == llm_model_name \o Prompt(context, text)
             r == CASE reply.outcome = "connect" ->
                           [kind |-> "return", value |-> ConnectMessage("ConnectionError")]
                    [] reply.outcome = "timeout" ->
                           [kind |-> "return", value |-> ConnectMessage("Timeout")]
                    [] OTHER -> IterLines(reply, 1, <<>>)
         IN  Outcome(r.kind, r.value, 1, sent)

summarize_with_model(app, llm_model_name, context, text, reply) ==
    IF llm_model_name = Sentinel
    THEN Outcome("return", UnavailableMessage(app, context, text), 0, <<>>)
    ELSE LET sent == llm_model_name \o Prompt(context, text)
             r == CASE reply.outcome = "connect" ->
                           [kind |-> "return", value |-> ConnectMessage("ConnectionError")]
                    [] reply.outcome = "timeout" ->
                           [kind |-> "return", value |-> ConnectMessage("Timeout")]
                    [] reply.outcome = "status" ->
                           [kind |-> "return",
                            value |-> StatusMessage(llm_model_name, reply.body)]
                    [] OTHER -> IterLines(reply, 1, <<>>)
         IN  Outcome(r.kind, r.value, 1, sent)

(***************************************************************************)
(* Inputs.                                                                 *)
(***************************************************************************)
Llama == <<"llama3">>
Models == {Llama, Sentinel}
Contexts == {<<>>, <<"Q", "3">>}

\* transcripts around the preview length, and short ones
LongTranscripts ==
    {Repeat("x", n) : n \in {PreviewLen - 1, PreviewLen, PreviewLen + 1}}
    \cup {Repeat(".", PreviewLen), Repeat("x", PreviewLen - 1) \o <<".", ".", ".">>}
ShortTranscripts == {<<>>, <<"h", "i">>, <<"h", ".", ".", ".">>}

\* calls of summarize_with_model: the preview needs long transcripts, the
\* stream does not depend on the transcript
SumInputs ==
    ({Sentinel} \X Contexts \X (LongTranscripts \cup ShortTranscripts))
    \cup ({Llama} \X Contexts \X {<<>>, <<"h", "i">>})

(***************************************************************************)
(* Specification SpecSum: single calls of summarize_with_model.            *)
(***************************************************************************)
NoInv == [i \in {} |-> 0]
NoDisk == [f \in {} |-> 0]

InitSum ==
    /\ \E app \in Apps, a \in SumInputs :
          call = [app |-> app, llm_model_name |-> a[1], context |-> a[2],
                  text |-> a[3], reply |-> NoReply, out |-> Pending]
    /\ inv = NoInv
    /\ disk = NoDisk

\* llm_model_name is the sentinel: no request is made
SumUnavailable ==
    /\ call.out.kind = "pending"
    /\ call.llm_model_name = Sentinel
    /\ call' = [call EXCEPT !.out =
                   summarize_with_model(call.app, call.llm_model_name,
                                        call.context, call.text, NoReply)]
    /\ UNCHANGED <<inv, disk>>

\* any other model: one POST, answered by the server in some way
SumGenerate ==
    /\ call.out.kind = "pending"
    /\ call.llm_model_name # Sentinel
    /\ \E reply \in Replies(MaxFrames, MaxChunk) :
          call' = [call EXCEPT !.reply = reply,
                               !.out = summarize_with_model(call.app,
                                          call.llm_model_name, call.context,
                                          call.text, reply)]
    /\ UNCHANGED <<inv, disk>>

NextSum == SumUnavailable \/ SumGenerate

SpecSum == InitSum /\ [][NextSum]_vars

(***************************************************************************)
(* The pipeline.  disk maps the name of every existing file to its         *)
(* contents; inv[i] is the state of pipeline invocation i.                 *)
(***************************************************************************)
None == <<"<None>">>

\* Python truthiness of an Optional[str]
Truthy(x) == x # None /\ x # <<>>

Exists(f) == f \in DOMAIN disk
Written(d, f, c) == [g \in DOMAIN d \cup {f} |-> IF g = f THEN c ELSE d[g]]
Removed(d, f) == [g \in DOMAIN d \ {f} |-> d[g]]

\* f"{os.path.splitext(audio_file_path)[0]}_converted.wav"
output_wav_file(audio_file_path) ==
    splitext_root(audio_file_path) \o <<"_converted.wav">>

\* the fallback transcript of transcribe_audio
WhisperUnavailable(audio_file_path, whisper_model_name) ==
    <<"Whisper.cpp Not Available in This Deployment ... Audio file received: ">>
    \o basename(audio_file_path)
    \o <<" Model requested: ">>
    \o whisper_model_name
    \o <<" For a working demo, try the Railway deployment with Docker.">>

\* the external tools
AudioPaths == {<<"/", "a", ".", "m">>, <<"/", "b", ".", "w">>}
Audios == {"talk", "silence"}
WhisperModels == {<<"small">>, <<"ghost">>}
InstalledModels == {<<"small">>}

\* what the transcription engine prints for a normalized recording
Speech(wav) ==
    IF wav = <<"wav", "talk">> THEN <<"h", "i">> ELSE <<>>

\* the answers of the inference server met in pipeline runs
PipelineReplies ==
    {Reply("connect", <<>>, <<>>, 1, "newline"),
     Reply("status", <<"Internal Server Error">>, <<>>, 1, "newline")}
    \cup {Reply("ok", <<>>, ls, 1, "newline") :
             ls \in {<<FrameA, FrameB>>, <<FrameNoResponseDone>>,
                     <<LineNonObject>>, <<FrameA, LineBadJson>>}}

IdleCall ==
    [app |-> "gradio", llm_model_name |-> Sentinel, context |-> <<>>,
     text |-> <<>>, reply |-> NoReply, out |-> Pending]

\* An invocation:
\*   pc          where it stands; "idle" before a request, and "done",
\*               "raised" or "failed" once the request is over
\*   normalized  "ok" or "failed" once ffmpeg has run
\*   engine      "ok" or "failed" once whisper-cli has run
\*   engineRuns  how often the engine command was started
\*   sumCalls    the arguments of the calls of summarize_with_model
\*   result      what the caller got: <<summary, transcript>>, else NoResult
\*   error       the exception that left the pipeline, else None
IdleInv ==
    [pc |-> "idle", app |-> "gradio", audio_file_path |-> <<>>,
     context |-> <<>>, whisper_model_name |-> <<>>, llm_model_name |-> <<>>,
     audio_file_wav |-> None, transcript |-> None, summary |-> None,
     normalized |-> "no", engine |-> "no", engineRuns |-> 0,
     sumCalls |-> <<>>, result |-> <<None, None>>, error |-> None]

NoResult == <<None, None>>

Over == {"done", "raised", "failed"}

Init ==
    /\ call = IdleCall
    /\ inv = [i \in {1} |-> IdleInv]
    /\ disk = NoDisk

\* A request arrives: the front end has stored the uploaded recording under
\* audio_file_path (streamlit_app.py: tmp_file) and calls the pipeline.
Start(i) ==
    /\ inv[i].pc = "idle"
    /\ \E app \in Apps, path \in AudioPaths, audio \in Audios,
          context \in Contexts, wm \in WhisperModels, lm \in Models :
          /\ inv' = [inv EXCEPT ![i] =
                        [IdleInv EXCEPT !.pc = "preprocess", !.app = app,
                                        !.audio_file_path = path,
                                        !.context = context,
                                        !.whisper_model_name = wm,
                                        !.llm_model_name = lm]]
          /\ disk' = Written(disk, path, <<"audio", audio>>)
    /\ UNCHANGED call

\* The request is over; the process serves the next one.
Finish(i) ==
    /\ inv[i].pc \in Over
    /\ inv' = [inv EXCEPT ![i] = IdleInv]
    /\ UNCHANGED <<call, disk>>

\* ffmpeg -y -i in out: "ok" writes the normalized recording; a failing run
\* (non-zero exit, or no ffmpeg on the host) may leave a partial file.
Ffmpeg(d, in, out, outcome) ==
    CASE outcome = "ok" -> Written(d, out, <<"wav", d[in][2]>>)
      [] outcome = "partial" -> Written(d, out, <<"wav", "partial">>)
      [] OTHER -> d

FfmpegOutcomes(in) ==
    IF Exists(in) /\ disk[in][1] = "audio"
    THEN {"ok", "partial", "failed"} ELSE {"partial", "failed"}

\* `whisper-cli -m model -f wav > output.txt`: the shell has created
\* output.txt; the engine succeeds only on an installed model and a readable
\* normalized recording.
WhisperOutcomes(wav, model) ==
    IF /\ model \in InstalledModels
       /\ wav \in DOMAIN disk
       /\ disk[wav][1] = "wav" /\ disk[wav][2] # "partial"
    THEN {"ok", "failed"} ELSE {"failed"}

(***************************************************************************)
(* main.py: translate_and_summarize                                        *)
(***************************************************************************)
G(i) == inv[i].app = "gradio"

\* preprocess_audio_file: check=True lets CalledProcessError escape
G_Preprocess(i) ==
    /\ G(i) /\ inv[i].pc = "preprocess"
    /\ LET in == inv[i].audio_file_path
           out == output_wav_file(in)
       IN  \E outcome \in FfmpegOutcomes(in) :
              /\ disk' = Ffmpeg(disk, in, out, outcome)
              /\ inv' = [inv EXCEPT ![i] =
                    IF outcome = "ok"
                    THEN [@ EXCEPT !.pc = "redirect", !.normalized = "ok",
                                   !.audio_file_wav = out]
                    ELSE [@ EXCEPT !.pc = "raised", !.normalized = "failed",
                                   !.error = <<"CalledProcessError">>]]
    /\ UNCHANGED call

\* the shell opens `> output.txt` before it starts the engine
G_Redirect(i) ==
    /\ G(i) /\ inv[i].pc = "redirect"
    /\ disk' = Written(disk, output_file, <<>>)
    /\ inv' = [inv EXCEPT ![i] = [@ EXCEPT !.pc = "whisper",
                                           !.engineRuns = @ + 1]]
    /\ UNCHANGED call

\* subprocess.run(whisper_command, shell=True, check=True)
G_Whisper(i) ==
    /\ G(i) /\ inv[i].pc = "whisper"
    /\ \E outcome \in WhisperOutcomes(inv[i].audio_file_wav,
                                      inv[i].whisper_model_name) :
          IF outcome = "ok"
          THEN /\ disk' = IF Exists(output_file)
                          THEN Written(disk, output_file,
                                       Speech(disk[inv[i].audio_file_wav]))
                          ELSE disk
               /\ inv' = [inv EXCEPT ![i] = [@ EXCEPT !.pc = "read",
                                                      !.engine = "ok"]]
          ELSE /\ disk' = disk
               /\ inv' = [inv EXCEPT ![i] =
                             [@ EXCEPT !.pc = "raised", !.engine = "failed",
                                       !.error = <<"CalledProcessError">>]]
    /\ UNCHANGED call

\* with open(output_file, "r") as f: transcript = f.read()
G_Read(i) ==
    /\ G(i) /\ inv[i].pc = "read"
    /\ inv' = [inv EXCEPT ![i] =
                  IF Exists(output_file)
                  THEN [@ EXCEPT !.pc = "write", !.transcript = disk[output_file]]
                  ELSE [@ EXCEPT !.pc = "raised",
                                 !.error = <<"FileNotFoundError">>]]
    /\ UNCHANGED <<call, disk>>

\* transcript_f.write(transcript)
G_WriteTranscript(i) ==
    /\ G(i) /\ inv[i].pc = "write"
    /\ disk' = Written(disk, transcript_file, inv[i].transcript)
    /\ inv' = [inv EXCEPT ![i] = [@ EXCEPT !.pc = "summarize"]]
    /\ UNCHANGED call

\* summary = summarize_with_model(llm_model_name, context, transcript)
G_Summarize(i) ==
    /\ G(i) /\ inv[i].pc = "summarize"
    /\ \E reply \in (IF inv[i].llm_model_name = Sentinel
                     THEN {NoReply} ELSE PipelineReplies) :
          LET out == summarize_with_model("gradio", inv[i].llm_model_name,
                                          inv[i].context, inv[i].transcript,
                                          reply)
              args == <<inv[i].llm_model_name, inv[i].context, inv[i].transcript>>
          IN  inv' = [inv EXCEPT ![i] =
                         IF out.kind = "return"
                         THEN [@ EXCEPT !.pc = "rm_wav", !.summary = out.value,
                                        !.sumCalls = Append(@, args)]
                         ELSE [@ EXCEPT !.pc = "raised", !.error = out.value,
                                        !.sumCalls = Append(@, args)]]
    /\ UNCHANGED <<call, disk>>

\* os.remove(audio_file_wav)
G_RemoveWav(i) ==
    /\ G(i) /\ inv[i].pc = "rm_wav"
    /\ IF Exists(inv[i].audio_file_wav)
       THEN /\ disk' = Removed(disk, inv[i].audio_file_wav)
            /\ inv' = [inv EXCEPT ![i] = [@ EXCEPT !.pc = "rm_output"]]
       ELSE /\ disk' = disk
            /\ inv' = [inv EXCEPT ![i] =
                          [@ EXCEPT !.pc = "raised",
                                    !.error = <<"FileNotFoundError">>]]
    /\ UNCHANGED call

\* os.remove(output_file)
G_RemoveOutput(i) ==
    /\ G(i) /\ inv[i].pc = "rm_output"
    /\ IF Exists(output_file)
       THEN /\ disk' = Removed(disk, output_file)
            /\ inv' = [inv EXCEPT ![i] = [@ EXCEPT !.pc = "return"]]
       ELSE /\ disk' = disk
            /\ inv' = [inv EXCEPT ![i] =
                          [@ EXCEPT !.pc = "raised",
                                    !.error = <<"FileNotFoundError">>]]
    /\ UNCHANGED call

\* return summary, transcript_file
G_Return(i) ==
    /\ G(i) /\ inv[i].pc = "return"
    /\ inv' = [inv EXCEPT ![i] =
                  [@ EXCEPT !.pc = "done",
                            !.result = <<inv[i].summary, transcript_file>>]]
    /\ UNCHANGED <<call, disk>>

(***************************************************************************)
(* streamlit_app.py: transcribe_audio and the button handler of main       *)
(***************************************************************************)
S(i) == inv[i].app = "streamlit"

\* transcribe_audio without `if not audio_file_wav: return None`
S_Preprocess_NoCheck(i) ==
    /\ S(i) /\ inv[i].pc = "preprocess"
    /\ LET in == inv[i].audio_file_path
           out == output_wav_file(in)
       IN  \E outcome \in FfmpegOutcomes(in) :
              /\ disk' = Ffmpeg(disk, in, out, outcome)
              /\ inv' = [inv EXCEPT ![i] =
                    IF outcome = "ok"
                    THEN [@ EXCEPT !.pc = "redirect", !.normalized = "ok",
                                   !.audio_file_wav = out]
                    ELSE [@ EXCEPT !.pc = "redirect", !.normalized = "failed"]]
    /\ UNCHANGED call

\* preprocess_audio_file returns None on CalledProcessError, and then
\* transcribe_audio returns None
S_Preprocess(i) ==
    /\ S(i) /\ inv[i].pc = "preprocess"
    /\ LET in == inv[i].audio_file_path
           out == output_wav_file(in)
       IN  \E outcome \in FfmpegOutcomes(in) :
              /\ disk' = Ffmpeg(disk, in, out, outcome)
              /\ inv' = [inv EXCEPT ![i] =
                    IF outcome = "ok"
                    THEN [@ EXCEPT !.pc = "redirect", !.normalized = "ok",
                                   !.audio_file_wav = out]
                    ELSE [@ EXCEPT !.pc = "check", !.normalized = "failed",
                                   !.transcript = None]]
    /\ UNCHANGED call

\* the shell opens `> output.txt` before it starts the engine
S_Redirect(i) ==
    /\ S(i) /\ inv[i].pc = "redirect"
    /\ disk' = Written(disk, output_file, <<>>)
    /\ inv' = [inv EXCEPT ![i] = [@ EXCEPT !.pc = "whisper",
                                           !.engineRuns = @ + 1]]
    /\ UNCHANGED call

\* subprocess.run(...) inside try; CalledProcessError gives the fallback text
S_Whisper(i) ==
    /\ S(i) /\ inv[i].pc = "whisper"
    /\ \E outcome \in WhisperOutcomes(inv[i].audio_file_wav,
                                      inv[i].whisper_model_name) :
          IF outcome = "ok"
          THEN /\ disk' = IF Exists(output_file)
                          THEN Written(disk, output_file,
                                       Speech(disk[inv[i].audio_file_wav]))
                          ELSE disk
               /\ inv' = [inv EXCEPT ![i] = [@ EXCEPT !.pc = "read",
                                                      !.engine = "ok"]]
          ELSE /\ disk' = disk
               /\ inv' = [inv EXCEPT ![i] =
                     [@ EXCEPT !.pc = "check", !.engine = "failed",
                               !.transcript =
                                   WhisperUnavailable(inv[i].audio_file_path,
                                                      inv[i].whisper_model_name)]]
    /\ UNCHANGED call

\* the fallback of `except (subprocess.CalledProcessError, FileNotFoundError)`
S_Fallback(r) ==
    [r EXCEPT !.pc = "check",
              !.transcript = WhisperUnavailable(r.audio_file_path,
                                                r.whisper_model_name)]

\* with open(output_file, "r") as f: transcript = f.read()
S_Read(i) ==
    /\ S(i) /\ inv[i].pc = "read"
    /\ inv' = [inv EXCEPT ![i] =
                  IF Exists(output_file)
                  THEN [@ EXCEPT !.pc = "rm_wav", !.transcript = disk[output_file]]
                  ELSE S_Fallback(@)]
    /\ UNCHANGED <<call, disk>>

\* os.remove(audio_file_wav)
S_RemoveWav(i) ==
    /\ S(i) /\ inv[i].pc = "rm_wav"
    /\ IF Exists(inv[i].audio_file_wav)
       THEN /\ disk' = Removed(disk, inv[i].audio_file_wav)
            /\ inv' = [inv EXCEPT ![i] = [@ EXCEPT !.pc = "rm_output"]]
       ELSE /\ disk' = disk
            /\ inv' = [inv EXCEPT ![i] = S_Fallback(@)]
    /\ UNCHANGED call

\* os.remove(output_file); return transcript
S_RemoveOutput(i) ==
    /\ S(i) /\ inv[i].pc = "rm_output"
    /\ IF Exists(output_file)
       THEN /\ disk' = Removed(disk, output_file)
            /\ inv' = [inv EXCEPT ![i] = [@ EXCEPT !.pc = "check"]]
       ELSE /\ disk' = disk
            /\ inv' = [inv EXCEPT ![i] = S_Fallback(@)]
    /\ UNCHANGED call

\* if transcript: ... else: st.error("Failed to transcribe audio file.")
S_Check(i) ==
    /\ S(i) /\ inv[i].pc = "check"
    /\ inv' = [inv EXCEPT ![i] =
                  [@ EXCEPT !.pc = IF Truthy(inv[i].transcript)
                                   THEN "write" ELSE "failed"]]
    /\ UNCHANGED <<call, disk>>

\* with open(transcript_file, "w") as f: f.write(transcript)
S_WriteTranscript(i) ==
    /\ S(i) /\ inv[i].pc = "write"
    /\ disk' = Written(disk, transcript_file, inv[i].transcript)
    /\ inv' = [inv EXCEPT ![i] = [@ EXCEPT !.pc = "summarize"]]
    /\ UNCHANGED call

\* summary = summarize_with_model(llm_model, context, transcript)
S_Summarize(i) ==
    /\ S(i) /\ inv[i].pc = "summarize"
    /\ \E reply \in (IF inv[i].llm_model_name = Sentinel
                     THEN {NoReply} ELSE PipelineReplies) :
          LET out == summarize_with_model("streamlit", inv[i].llm_model_name,
                                          inv[i].context, inv[i].transcript,
                                          reply)
              args == <<inv[i].llm_model_name, inv[i].context, inv[i].transcript>>
          IN  inv' = [inv EXCEPT ![i] =
                         IF out.kind = "return"
                         THEN [@ EXCEPT !.pc = "display", !.summary = out.value,
                                        !.sumCalls = Append(@, args)]
                         ELSE [@ EXCEPT !.pc = "raised", !.error = out.value,
                                        !.sumCalls = Append(@, args)]]
    /\ UNCHANGED <<call, disk>>

\* the summary is shown and both download buttons are offered
S_Display(i) ==
    /\ S(i) /\ inv[i].pc = "display"
    /\ inv' = [inv EXCEPT ![i] =
                  [@ EXCEPT !.pc = "unlink_upload",
                            !.result = <<inv[i].summary, inv[i].transcript>>]]
    /\ UNCHANGED <<call, disk>>

\* try: os.unlink(tmp_file_path) ... except: pass
S_UnlinkUpload(i) ==
    /\ S(i) /\ inv[i].pc = "unlink_upload"
    /\ IF Exists(inv[i].audio_file_path)
       THEN /\ disk' = Removed(disk, inv[i].audio_file_path)
            /\ inv' = [inv EXCEPT ![i] = [@ EXCEPT !.pc = "unlink_transcript"]]
       ELSE /\ disk' = disk
            /\ inv' = [inv EXCEPT ![i] = [@ EXCEPT !.pc = "done"]]
    /\ UNCHANGED call

\* if os.path.exists(transcript_file): os.unlink(transcript_file)
S_UnlinkTranscript(i) ==
    /\ S(i) /\ inv[i].pc = "unlink_transcript"
    /\ disk' = Removed(disk, transcript_file)
    /\ inv' = [inv EXCEPT ![i] = [@ EXCEPT !.pc = "done"]]
    /\ UNCHANGED call

Next ==
    \/ \E i \in DOMAIN inv : Start(i)
    \/ \E i \in DOMAIN inv : G_Preprocess(i)
    \/ \E i \in DOMAIN inv : G_Redirect(i)
    \/ \E i \in DOMAIN inv : G_Whisper(i)
    \/ \E i \in DOMAIN inv : G_Read(i)
    \/ \E i \in DOMAIN inv : G_WriteTranscript(i)
    \/ \E i \in DOMAIN inv : G_Summarize(i)
    \/ \E i \in DOMAIN inv : G_RemoveWav(i)
    \/ \E i \in DOMAIN inv : G_RemoveOutput(i)
    \/ \E i \in DOMAIN inv : G_Return(i)
    \/ \E i \in DOMAIN inv : S_Preprocess(i)
    \/ \E i \in DOMAIN inv : S_Redirect(i)
    \/ \E i \in DOMAIN inv : S_Whisper(i)
    \/ \E i \in DOMAIN inv : S_Read(i)
    \/ \E i \in DOMAIN inv : S_RemoveWav(i)
    \/ \E i \in DOMAIN inv : S_RemoveOutput(i)
    \/ \E i \in DOMAIN inv : S_Check(i)
    \/ \E i \in DOMAIN inv : S_WriteTranscript(i)
    \/ \E i \in DOMAIN inv : S_Summarize(i)
    \/ \E i \in DOMAIN inv : S_Display(i)
    \/ \E i \in DOMAIN inv : S_UnlinkUpload(i)
    \/ \E i \in DOMAIN inv : S_UnlinkTranscript(i)
    \/ \E i \in DOMAIN inv : Finish(i)

Spec == Init /\ [][Next]_vars

(***************************************************************************)
(* Properties of summarize_with_model, checked under SpecSum.              *)
(***************************************************************************)
Returned == call.out.kind # "pending"
Streamed == Returned /\ call.reply.outcome = "ok"

\* the first line at which reading stops for a reason other than the end of
\* the body: a done frame, or a line that is not a JSON object; 0 if none
FirstStop(lines) ==
    LET stops == {i \in 1..Len(lines) :
                     \/ lines[i].kind \in {"badjson", "badutf8", "nonobject"}
                     \/ lines[i].kind = "object" /\ lines[i].done}
    IN  IF stops = {} THEN 0 ELSE CHOOSE i \in stops : \A j \in stops : i <= j

\* the fragments of the frames 1..n, in arrival order
RECURSIVE Fragments(_, _)
Fragments(lines, n) ==
    IF n = 0 THEN <<>>
    ELSE Fragments(lines, n - 1)
         \o (IF lines[n].kind = "object" /\ lines[n].hasResponse
             THEN lines[n].response ELSE <<>>)

AllWellFormed(reply) ==
    /\ reply.ending # "reset"
    /\ \A i \in 1..Len(reply.lines) : reply.lines[i] \in WellFormed

\* C4: for every summarization outcome summarize_with_model returns a string
\* and does not raise.
C4_NeverRaises == call.out.kind # "raise"

\* C5: on a 200 response of well-formed frames the result is exactly the
\* concatenation, in arrival order, of the fragments of the frames up to and
\* including the first frame with done = true (of all frames when no frame
\* has done = true); nothing of a later frame is in it.
C5_ConcatUpToDone ==
    (Streamed /\ AllWellFormed(call.reply)) =>
        LET lines == call.reply.lines
            last == IF FirstStop(lines) = 0 THEN Len(lines) ELSE FirstStop(lines)
        IN  /\ call.out.kind = "return"
            /\ call.out.value = Fragments(lines, last)

C5_Witness ==
    /\ Streamed
    /\ call.reply.lines = <<FrameA, FrameB, FrameC>>
    /\ call.out.value = <<"A", "B">>

\* C6: with the sentinel model no request is made and the result holds the
\* supplied context and ends with the first min(500, len) characters of the
\* transcript, followed by "..." exactly when the transcript is longer than 500.
C6_SentinelPreview ==
    (Returned /\ call.llm_model_name = Sentinel) =>
        LET n == IF Len(call.text) <= 500 THEN Len(call.text) ELSE 500
            preview == [i \in 1..n |-> call.text[i]]
        IN  /\ call.out.kind = "return"
            /\ call.out.posts = 0
            /\ call.out.sent = <<>>
            /\ Contains(call.out.value, call.context)
            /\ IF Len(call.text) > 500
               THEN EndsWith(call.out.value, PreviewLabel \o preview \o <<".", ".", ".">>)
               ELSE EndsWith(call.out.value, PreviewLabel \o preview)

C6_Witness ==
    /\ Returned
    /\ call.llm_model_name = Sentinel
    /\ call.context # <<>>
    /\ Len(call.text) = 501
    /\ EndsWith(call.out.value, <<"x", ".", ".", ".">>)

\* a line that json.loads rejects is the line at which reading stops
ParseFailure(reply) ==
    /\ reply.outcome = "ok"
    /\ FirstStop(reply.lines) # 0
    /\ reply.lines[FirstStop(reply.lines)].kind = "badjson"

Accumulated(reply) == Fragments(reply.lines, FirstStop(reply.lines) - 1)

C1_TempFilesRemoved ==
    \A i \in DOMAIN inv :
        inv[i].pc \in Over =>
            /\ ~Exists(output_wav_file(inv[i].audio_file_path))
            /\ ~Exists(output_file)

\* C2: when normalization succeeded and the engine fails, nothing is raised
\* and the transcript is a placeholder naming the requested model and the
\* base name of the input file.
C2_EngineFailureGivesPlaceholder ==
    \A i \in DOMAIN inv :
        (inv[i].normalized = "ok" /\ inv[i].engine = "failed") =>
            /\ inv[i].error = None
            /\ inv[i].pc # "raised"
            /\ Contains(inv[i].transcript, inv[i].whisper_model_name)
            /\ Contains(inv[i].transcript, basename(inv[i].audio_file_path))

\* C3: once an invocation in which normalization succeeded is over,
\* transcript.txt exists.
C3_TranscriptFilePresent ==
    \A i \in DOMAIN inv :
        (inv[i].pc \in Over /\ inv[i].normalized = "ok") =>
            Exists(transcript_file)

\* C8: the summary of every returned result is non-empty.
C8_SummaryNonEmpty ==
    \A i \in DOMAIN inv :
        inv[i].result # NoResult => inv[i].result[1] # <<>>

\* C9: when normalization fails the request is aborted as failed: the engine
\* is never started, summarize_with_model is never called and no result is
\* returned.
C9_NormalizationFailureAborts ==
    \A i \in DOMAIN inv :
        inv[i].normalized = "failed" =>
            /\ inv[i].engineRuns = 0
            /\ inv[i].engine = "no"
            /\ inv[i].sumCalls = <<>>
            /\ inv[i].result = NoResult
            /\ inv[i].pc \in {"check", "failed", "raised"}

C9_Witness ==
    \E i \in DOMAIN inv :
        /\ inv[i].normalized = "failed"
        /\ inv[i].pc = "failed"
        /\ inv[i].app = "streamlit"

\* C10: when normalization succeeded and the engine failed, the invocation
\* ends having called summarize_with_model exactly once, with the caller's
\* model identifier and context and the placeholder transcript.
C10_SummarizedOnceOnPlaceholder ==
    \A i \in DOMAIN inv :
        (inv[i].pc \in Over /\ inv[i].normalized = "ok"
                            /\ inv[i].engine = "failed") =>
            /\ Len(inv[i].sumCalls) = 1
            /\ inv[i].sumCalls[1][1] = inv[i].llm_model_name
            /\ inv[i].sumCalls[1][2] = inv[i].context
            /\ Contains(inv[i].sumCalls[1][3], inv[i].whisper_model_name)
            /\ Contains(inv[i].sumCalls[1][3], basename(inv[i].audio_file_path))

(***************************************************************************)
(* Specification SpecConc: two pipeline invocations of one front end run   *)
(* concurrently in the same working directory, on distinct input paths.    *)
(* Invocation 1 was given a recording of speech, invocation 2 one of       *)
(* silence; both uploads are on disk.                                      *)
(***************************************************************************)
ConcPaths == AudioPaths \cup {<<"/", "a", ".", "w">>}

OwnAudio(i) == IF i = 1 THEN "talk" ELSE "silence"

InitConc ==
    /\ call = IdleCall
    /\ \E app \in Apps, p1 \in ConcPaths, p2 \in ConcPaths,
          wm \in WhisperModels, lm \in Models :
          /\ p1 # p2
          /\ inv = [i \in {1, 2} |->
                       [IdleInv EXCEPT !.pc = "preprocess", !.app = app,
                                       !.audio_file_path = IF i = 1 THEN p1 ELSE p2,
                                       !.whisper_model_name = wm,
                                       !.llm_model_name = lm]]
          /\ disk = Written(Written(NoDisk, p1, <<"audio", OwnAudio(1)>>),
                            p2, <<"audio", OwnAudio(2)>>)

NextConc ==
    \/ \E i \in DOMAIN inv : G_Preprocess(i)
    \/ \E i \in DOMAIN inv : G_Redirect(i)
    \/ \E i \in DOMAIN inv : G_Whisper(i)
    \/ \E i \in DOMAIN inv : G_Read(i)
    \/ \E i \in DOMAIN inv : G_WriteTranscript(i)
    \/ \E i \in DOMAIN inv : G_Summarize(i)
    \/ \E i \in DOMAIN inv : G_RemoveWav(i)
    \/ \E i \in DOMAIN inv : G_RemoveOutput(i)
    \/ \E i \in DOMAIN inv : G_Return(i)
    \/ \E i \in DOMAIN inv : S_Preprocess(i)
    \/ \E i \in DOMAIN inv : S_Redirect(i)
    \/ \E i \in DOMAIN inv : S_Whisper(i)
    \/ \E i \in DOMAIN inv : S_Read(i)
    \/ \E i \in DOMAIN inv : S_RemoveWav(i)
    \/ \E i \in DOMAIN inv : S_RemoveOutput(i)
    \/ \E i \in DOMAIN inv : S_Check(i)
    \/ \E i \in DOMAIN inv : S_WriteTranscript(i)
    \/ \E i \in DOMAIN inv : S_Summarize(i)
    \/ \E i \in DOMAIN inv : S_Display(i)
    \/ \E i \in DOMAIN inv : S_UnlinkUpload(i)
    \/ \E i \in DOMAIN inv : S_UnlinkTranscript(i)

SpecConc == InitConc /\ [][NextConc]_vars

\* C11: two concurrent invocations on distinct input paths work on distinct
\* temporary files: neither finds a temporary file of its own deleted by the
\* other, and the transcript an invocation takes from a successful engine
\* run is the output of the engine on its own recording.
C11_NoInterference ==
    \A i \in DOMAIN inv :
        /\ inv[i].error # <<"FileNotFoundError">>
        /\ (inv[i].engine = "ok" /\ inv[i].transcript # None) =>
               inv[i].transcript = Speech(<<"wav", OwnAudio(i)>>)

(***************************************************************************)
(* Further properties of summarize_with_model, checked under SpecSum.      *)
(***************************************************************************)
\* C12: on a status other than 200 no frame is read and nothing is raised:
\* the result is the explanatory text, then the raw body of the answer, then
\* the note that the transcript is still available for download.
C12_StatusMessage ==
    (Returned /\ call.reply.outcome = "status") =>
        /\ call.out.kind = "return"
        /\ call.out.posts = 1
        /\ Len(call.out.value) = Len(call.llm_model_name) + Len(call.reply.body) + 3
        /\ call.out.value[1] = "Error: Failed to summarize with model "
        /\ Contains(call.out.value, call.llm_model_name)
        /\ EndsWith(call.out.value,
                    call.reply.body
                    \o <<"Transcript is still available for download below.">>)

C12_Witness ==
    /\ Returned
    /\ call.reply.outcome = "status"
    /\ call.reply.lines = <<FrameA, FrameB>>
    /\ Contains(call.out.value, <<FrameA.raw, FrameB.raw>>)
    /\ ~Contains(call.out.value, <<"A", "B">>)

\* a 200 body of JSON objects, at least one, none of them with done = true,
\* that ends by a regular close of the connection
EndsWithoutDone(reply) ==
    /\ reply.outcome = "ok"
    /\ reply.ending # "reset"
    /\ Len(reply.lines) > 0
    /\ \A i \in 1..Len(reply.lines) :
          reply.lines[i].kind = "object" /\ ~reply.lines[i].done

\* C13: accumulation ends on a frame with done = true, not on the close of
\* the connection: a stream that ends without such a frame is not returned
\* as a normal summary made of the fragments received.
C13_CloseIsNotCompletion ==
    (Returned /\ EndsWithoutDone(call.reply)) =>
        ~(/\ call.out.kind = "return"
          /\ call.out.value = Fragments(call.reply.lines, Len(call.reply.lines)))

====
